---- MODULE Spec2Model ----
(***************************************************************************)
(* A model of scripts/bundle.js: the Lua bundler (path resolution, the     *)
(* require -> import rewriting, the depth-first module traversal, the      *)
(* emission of the artifact and the command-line wrapper) and of the two   *)
(* Lua functions the artifact carries, import and game_require.            *)
(* Left out: warnOnTypeDefinitions (it only prints), the date in the       *)
(* header of the artifact, and the usage message for too few arguments.    *)
(*                                                                         *)
(* A path is a record [segs, stem, ext]: segs is the directory part, one   *)
(* segment per element, with "/" as first segment of an absolute path;     *)
(* stem and ext are the two parts of the base name that path.extname()     *)
(* separates ("a" and ".lua" for a.lua).                                   *)
(***************************************************************************)
EXTENDS Naturals, Integers, Sequences, FiniteSets, TLC

(***************************************************************************)
(* Bounds of the model.                                                    *)
(***************************************************************************)
\* the number of require(...) call sites in the whole source tree
MaxImports == 3

(***************************************************************************)
(* Paths (node's path module, POSIX flavour).                              *)
(***************************************************************************)
P(segs, stem, ext) == [segs |-> segs, stem |-> stem, ext |-> ext]

NoPath == P(<<>>, "", "")

\* process.cwd()
cwd == <<"/", "w">>

isAbsolute(segs) == Len(segs) > 0 /\ segs[1] = "/"

\* normalisation of a directory part: "." is dropped, ".." removes the
\* segment before it (the root has no parent; a relative path keeps a
\* leading "..")
RECURSIVE normalizeSegs(_, _)
normalizeSegs(segs, acc) ==
  IF segs = <<>> THEN acc
  ELSE LET h == Head(segs)
           t == Tail(segs)
       IN  IF h = "." THEN normalizeSegs(t, acc)
           ELSE IF h = ".."
             THEN IF acc = <<"/">> THEN normalizeSegs(t, acc)
                  ELSE IF acc = <<>> \/ acc[Len(acc)] = ".."
                    THEN normalizeSegs(t, Append(acc, ".."))
                    ELSE normalizeSegs(t, SubSeq(acc, 1, Len(acc) - 1))
             ELSE normalizeSegs(t, Append(acc, h))

\* the directory part made absolute against the working directory
absSegs(segs) ==
  IF isAbsolute(segs) THEN normalizeSegs(segs, <<>>)
  ELSE normalizeSegs(cwd \o segs, <<>>)

\* path.dirname(p)
pathDirname(p) == p.segs

\* path.extname(p)
pathExtname(p) == p.ext

\* path.resolve(dir, p): p taken relative to the directory dir, absolute
pathResolve(dir, p) ==
  IF isAbsolute(p.segs) THEN P(absSegs(p.segs), p.stem, p.ext)
  ELSE P(absSegs(dir \o p.segs), p.stem, p.ext)

\* path.join(dir, p): as path.resolve, but a relative dir stays relative
pathJoin(dir, p) == P(normalizeSegs(dir \o p.segs, <<>>), p.stem, p.ext)

RECURSIVE commonPrefixLen(_, _)
commonPrefixLen(a, b) ==
  IF a = <<>> \/ b = <<>> \/ Head(a) # Head(b) THEN 0
  ELSE 1 + commonPrefixLen(Tail(a), Tail(b))

\* path.relative(from, to), backslashes replaced by "/": the way from the directory
\* `from` to the path `to`, one ".." for every segment of `from` that is
\* left. Segments are kept apart here, so the separator is always "/".
pathRelative(from, to) ==
  LET f == absSegs(from)
      t == absSegs(to.segs)
      n == commonPrefixLen(f, t)
  IN  P([i \in 1..(Len(f) - n) |-> ".."] \o SubSeq(t, n + 1, Len(t)),
        to.stem, to.ext)

\* absolute + '.lua'
withExt(p, e) == P(p.segs, p.stem, e)

(***************************************************************************)
(* Errors and results.                                                     *)
(***************************************************************************)
Err(kind, what, at) == [kind |-> kind, what |-> what, at |-> at]

NoErr == Err("none", NoPath, NoPath)

(***************************************************************************)
(* resolveModulePath: files is the set of paths fs.existsSync answers true *)
(* for.                                                                    *)
(***************************************************************************)
resolveModulePathLuauFirst(files, baseDir, currentFilePath, requiredPath) ==
  LET currentDir == pathDirname(currentFilePath)
      absolute   == pathResolve(currentDir, requiredPath)
      extension  == pathExtname(absolute)
      notFound   == [ok |-> FALSE, val |-> NoPath,
                     err |-> Err("ModuleNotFound", requiredPath,
                                 pathResolve(currentDir, currentFilePath))]
      found(a)   == [ok |-> TRUE, val |-> pathRelative(baseDir, a), err |-> NoErr]
  IN  IF extension = ""
        THEN IF withExt(absolute, ".luau") \in files
               THEN found(withExt(absolute, ".luau"))
             ELSE IF withExt(absolute, ".lua") \in files
               THEN found(withExt(absolute, ".lua"))
             ELSE notFound
        ELSE IF absolute \in files THEN found(absolute) ELSE notFound

resolveModulePath(files, baseDir, currentFilePath, requiredPath) ==
  LET currentDir == pathDirname(currentFilePath)
      absolute   == pathResolve(currentDir, requiredPath)
      extension  == pathExtname(absolute)
      notFound   == [ok |-> FALSE, val |-> NoPath,
                     err |-> Err("ModuleNotFound", requiredPath,
                                 pathResolve(currentDir, currentFilePath))]
      found(a)   == [ok |-> TRUE, val |-> pathRelative(baseDir, a), err |-> NoErr]
  IN  IF extension = ""
        THEN IF withExt(absolute, ".lua") \in files
               THEN found(withExt(absolute, ".lua"))
             ELSE IF withExt(absolute, ".luau") \in files
               THEN found(withExt(absolute, ".luau"))
             ELSE notFound
        ELSE IF absolute \in files THEN found(absolute) ELSE notFound

(***************************************************************************)
(* Source text. A module's text is a sequence of items: a stretch of other *)
(* text, or one match of requirePattern (the word require, "(", and all   *)
(* of the text up to the first ")") with the text                          *)
(* between "(" and the first ")" as a sequence of tokens. After the        *)
(* rewriting a match is an import(...) call.                               *)
(* A token is a quote, white space, a name, "(" or, for the characters of  *)
(* a path written in the source, the path they spell.                      *)
(***************************************************************************)
Tok(k) == [k |-> k, p |-> NoPath]

Chars(p) == [k |-> "chars", p |-> p]

DQ == Tok("\"")

SQ == Tok("'")

WS == Tok(" ")

LP == Tok("(")

NAME == Tok("name")

Quotes == {DQ, SQ}

Item(t, arg) == [t |-> t, arg |-> arg]

\* the \s* before the capture group takes the white space after "("
RECURSIVE skipSpace(_)
skipSpace(raw) ==
  IF raw # <<>> /\ Head(raw) = WS THEN skipSpace(Tail(raw)) ELSE raw

quotedMatchNoEnd(arg) ==
  /\ Len(arg) >= 3
  /\ arg[1] \in Quotes
  /\ arg[2] \notin Quotes
  /\ \E j \in 3..Len(arg) : arg[j] \in Quotes

\* arg.match(...): a quote, one or more characters none of which is a
\* quote, a quote, and nothing before or after
quotedMatch(arg) ==
  /\ Len(arg) >= 3
  /\ arg[1] \in Quotes
  /\ arg[Len(arg)] \in Quotes
  /\ \A i \in 2..(Len(arg) - 1) : arg[i] \notin Quotes

\* quotedMatch[1]: the characters between the quotes, as the path they
\* spell. A single name spells a file of that name in the current
\* directory; anything else that is not a path token spells a name no file
\* of the tree has.
requiredPathOf(arg) ==
  LET mid == SubSeq(arg, 2, Len(arg) - 1)
  IN  IF Len(mid) = 1
        THEN IF mid[1].k = "chars" THEN mid[1].p ELSE P(<<>>, mid[1].k, "")
        ELSE P(<<>>, "?", "")

\* the replace callback of parseAndTransform, applied to one match
replaceRequire(files, baseDir, currentFilePath, raw) ==
  LET arg == skipSpace(raw)
  IN  IF quotedMatch(arg)
        THEN LET r == resolveModulePath(files, baseDir, currentFilePath,
                                        requiredPathOf(arg))
             IN  [ok |-> r.ok,
                  item |-> Item("import", <<DQ, Chars(r.val), DQ>>),
                  subs |-> <<r.val>>,
                  err |-> r.err]
        ELSE [ok |-> TRUE, item |-> Item("import", arg), subs |-> <<>>,
              err |-> NoErr]

RECURSIVE transformFrom(_, _, _, _, _, _)
transformFrom(files, baseDir, currentFilePath, rest, newContent, subModules) ==
  IF rest = <<>>
    THEN [ok |-> TRUE, newContent |-> newContent, subModules |-> subModules,
          err |-> NoErr]
  ELSE IF Head(rest).t # "require"
    THEN transformFrom(files, baseDir, currentFilePath, Tail(rest),
                       Append(newContent, Head(rest)), subModules)
  ELSE LET r == replaceRequire(files, baseDir, currentFilePath, Head(rest).arg)
       IN  IF r.ok
             THEN transformFrom(files, baseDir, currentFilePath, Tail(rest),
                                Append(newContent, r.item), subModules \o r.subs)
             ELSE [ok |-> FALSE, newContent |-> <<>>, subModules |-> <<>>,
                   err |-> r.err]

\* parseAndTransform(luaContent, currentFilePath); baseDir is the closure's
parseAndTransform(files, baseDir, luaContent, currentFilePath) ==
  transformFrom(files, baseDir, currentFilePath, luaContent, <<>>, <<>>)

(***************************************************************************)
(* The source tree the bundler runs on.                                    *)
(***************************************************************************)
SrcDir == <<"/", "w", "src">>

LibDir == <<"/", "w", "src", "lib">>

MainFile == P(SrcDir, "main", ".lua")

AFile == P(SrcDir, "a", ".luau")

CFile == P(LibDir, "c", ".lua")

\* exists, and cannot be read
BadFile == P(SrcDir, "bad", ".lua")

Readable == {MainFile, AFile, CFile}

Existing == Readable \cup {BadFile}

\* process.argv[2]: an absolute base directory, or one relative to cwd
BaseDirs == {SrcDir, <<".", "src">>}

\* process.argv[3]
EntryFiles == {P(<<>>, "main", ".lua"), P(<<>>, "gone", ".lua")}

\* the texts between the parentheses of the require calls of the tree
Sites ==
  { <<DQ, Chars(P(<<".">>, "a", "")), DQ>>,
    <<DQ, Chars(P(<<".", "lib">>, "c", "")), DQ>>,
    <<DQ, Chars(P(<<"..">>, "main", ".lua")), DQ>>,
    <<SQ, Chars(P(<<"..">>, "a", "")), SQ>>,
    <<DQ, Chars(P(<<".">>, "bad", ".lua")), DQ>>,
    <<DQ, Chars(P(<<".">>, "a", "")), DQ, WS>>,
    <<NAME>> }

TextsOfLen(n) == {[i \in 1..n |-> Item("require", t[i])] : t \in [1..n -> Sites]}

Splits ==
  {s \in [Readable -> 0..MaxImports] :
     s[MainFile] + s[AFile] + s[CFile] <= MaxImports}

treeOf(tm, ta, tc) == (MainFile :> tm) @@ (AFile :> ta) @@ (CFile :> tc)

EmptyTree == [f \in Readable |-> <<>>]

(***************************************************************************)
(* The state of one run of the command line.                               *)
(***************************************************************************)
VARIABLES
  baseDir,          \* process.argv[2]
  entryFile,        \* process.argv[3]
  fs,               \* the text of every readable file
  pc,               \* where the run is
  frames,           \* the loadModule calls in progress, innermost last
  stack,            \* the stack array the loadModule calls share
  visited,          \* the visited set
  modules,          \* the modules object, in property order
  transformedEntry, \* the entry's text after parseAndTransform
  entryImports,     \* the entry's subModules
  ei,               \* the position of the loop over entryImports
  err,              \* the Error thrown
  output,           \* what bundleLua returned
  outFile,          \* the output file: the sequence of writes to it
  exitCode,         \* the exit status of the process, once it has ended
  readLog,          \* every file fs.readFileSync returned, in order
  putLog            \* every key modules[...] = was executed for, in order

buildVars ==
  <<baseDir, entryFile, fs, pc, frames, stack, visited, modules,
    transformedEntry, entryImports, ei, err, output, outFile, exitCode,
    readLog, putLog>>

(***************************************************************************)
(* One call of resolveModulePath or parseAndTransform on given arguments.  *)
(***************************************************************************)
VARIABLES
  fnPc,             \* "ready" before the call, "done" after it
  fnIn,             \* the arguments, and what the file system holds
  fnOut             \* what the call returned or threw

fnVars == <<fnPc, fnIn, fnOut>>

(***************************************************************************)
(* The artifact at run time: the __BUNDLE table and the calls of import.   *)
(***************************************************************************)
VARIABLES
  luaPc,            \* "run" while the artifact runs
  BUNDLE,           \* the __BUNDLE table: what every key holds
  bodies,           \* what the body of every module does when evaluated
  calls,            \* the Lua calls in progress, innermost last
  evals,            \* how often the body of every module was entered
  results           \* the outcome of every import call of the entry code

luaVars == <<luaPc, BUNDLE, bodies, calls, evals, results>>

(***************************************************************************)
(* The artifact at run time: the calls of game_require.                    *)
(***************************************************************************)
VARIABLES
  grPc,             \* where the game_require call is
  identity,         \* the thread identity
  grArgs,           \* what require(module) and callback will do
  imported,         \* the local imported
  cbSeen,           \* every call of callback: its argument, the identity
  restored,         \* whether this call has run setthreadidentity(7)
  grLog             \* the game_require calls that are over

grVars == <<grPc, identity, grArgs, imported, cbSeen, restored, grLog>>

\* the variables of the parts that are not running
LuaOff ==
  /\ luaPc = "off"
  /\ BUNDLE = <<>>
  /\ bodies = <<>>
  /\ calls = <<>>
  /\ evals = <<>>
  /\ results = <<>>

GrOff ==
  /\ grPc = "off"
  /\ identity = 0
  /\ grArgs = <<>>
  /\ imported = <<>>
  /\ cbSeen = <<>>
  /\ restored = FALSE
  /\ grLog = <<>>

FnOff == fnPc = "off" /\ fnIn = <<>> /\ fnOut = <<>>

BuildOff ==
  /\ baseDir = <<>>
  /\ entryFile = NoPath
  /\ fs = <<>>
  /\ pc = "off"
  /\ frames = <<>>
  /\ stack = <<>>
  /\ visited = {}
  /\ modules = <<>>
  /\ transformedEntry = <<>>
  /\ entryImports = <<>>
  /\ ei = 1
  /\ err = NoErr
  /\ output = <<>>
  /\ outFile = <<>>
  /\ exitCode = <<>>
  /\ readLog = <<>>
  /\ putLog = <<>>

BuildInit ==
  /\ baseDir \in BaseDirs
  /\ entryFile \in EntryFiles
  /\ \E s \in Splits :
       \E tm \in TextsOfLen(s[MainFile]), ta \in TextsOfLen(s[AFile]),
          tc \in TextsOfLen(s[CFile]) :
         /\ fs = treeOf(tm, ta, tc)
         /\ entryFile.stem = "gone" => fs = EmptyTree
  /\ pc = "start"
  /\ frames = <<>>
  /\ stack = <<>>
  /\ visited = {}
  /\ modules = <<>>
  /\ transformedEntry = <<>>
  /\ entryImports = <<>>
  /\ ei = 1
  /\ err = NoErr
  /\ output = <<>>
  /\ outFile = <<>>
  /\ exitCode = <<>>
  /\ readLog = <<>>
  /\ putLog = <<>>

\* fs.readFileSync succeeds on p (a relative path is taken from cwd)
canRead(p) == P(absSegs(p.segs), p.stem, p.ext) \in Readable

readFileSync(p) == fs[P(absSegs(p.segs), p.stem, p.ext)]

putModuleFirst(mods, moduleName, newContent) ==
  IF \E i \in 1..Len(mods) : mods[i].name = moduleName
    THEN [i \in 1..Len(mods) |->
            IF mods[i].name = moduleName
              THEN [name |-> moduleName, src |-> newContent]
              ELSE mods[i]]
    ELSE <<[name |-> moduleName, src |-> newContent]>> \o mods

\* modules[moduleName] = newContent: a new key goes last, a key the object
\* has keeps its place (a key ends with a file extension, so it is never
\* an array index, which Object.entries would list before the other keys)
putModule(mods, moduleName, newContent) ==
  IF \E i \in 1..Len(mods) : mods[i].name = moduleName
    THEN [i \in 1..Len(mods) |->
            IF mods[i].name = moduleName
              THEN [name |-> moduleName, src |-> newContent]
              ELSE mods[i]]
    ELSE Append(mods, [name |-> moduleName, src |-> newContent])

moduleKeys(mods) == [i \in 1..Len(mods) |-> mods[i].name]

Range(seq) == {seq[i] : i \in 1..Len(seq)}

\* bundleLua, lines 154-165: the entry is read and transformed
Start ==
  /\ pc = "start"
  /\ LET entryPath == pathJoin(baseDir, entryFile)
     IN  IF ~canRead(entryPath)
           THEN /\ err' = Err("IoError", entryPath, NoPath)
                /\ pc' = "thrown"
                /\ UNCHANGED <<transformedEntry, entryImports, readLog>>
           ELSE LET r == parseAndTransform(Existing, baseDir,
                                           readFileSync(entryPath), entryPath)
                IN  /\ readLog' = Append(readLog, pathResolve(<<>>, entryPath))
                    /\ IF r.ok
                         THEN /\ transformedEntry' = r.newContent
                              /\ entryImports' = r.subModules
                              /\ pc' = "loading"
                              /\ err' = NoErr
                         ELSE /\ err' = r.err
                              /\ pc' = "thrown"
                              /\ UNCHANGED <<transformedEntry, entryImports>>
  /\ UNCHANGED <<fnVars, luaVars, grVars>>
  /\ UNCHANGED <<baseDir, entryFile, fs, frames, stack, visited, modules, ei,
                 output, outFile, exitCode, putLog>>

\* the loop that is about to call loadModule: the one of the innermost
\* loadModule call (line 146), or the one over entryImports (line 167)
callerSubs == IF frames = <<>> THEN entryImports ELSE frames[Len(frames)].subs

callerPos == IF frames = <<>> THEN ei ELSE frames[Len(frames)].i

callerPath ==
  IF frames = <<>> THEN pathJoin(baseDir, entryFile)
  ELSE frames[Len(frames)].path

\* the caller's loop moves to its next element
stepCaller(fr, e) ==
  IF fr = <<>> THEN [frames |-> fr, ei |-> e + 1]
  ELSE [frames |-> [fr EXCEPT ![Len(fr)].i = @ + 1], ei |-> e]

\* loadModule, lines 127-130: what the call does with modulePath
loadCheckNoCycle(stk, vis, modulePath) ==
  IF modulePath \in vis \/ modulePath \in Range(stk) THEN "return" ELSE "open"

loadCheckNoVisited(stk, vis, modulePath) ==
  IF modulePath \in Range(stk) THEN "throw" ELSE "open"

loadCheck(stk, vis, modulePath) ==
  IF modulePath \in Range(stk) THEN "throw"
  ELSE IF modulePath \in vis THEN "return"
  ELSE "open"

\* loadModule, lines 124-144, called from line 147 or line 168: up to the
\* point where its own loop starts
loadModule ==
  /\ pc = "loading"
  /\ callerPos <= Len(callerSubs)
  /\ LET moduleName   == callerSubs[callerPos]
         previousPath == callerPath
         stk          == IF frames = <<>> THEN <<>> ELSE stack
         modulePath   == pathResolve(baseDir, moduleName)
         check        == loadCheck(stk, visited, modulePath)
     IN  IF check = "throw"
           THEN /\ err' = Err("CircularImport", moduleName, previousPath)
                /\ pc' = "thrown"
                /\ stack' = stk
                /\ UNCHANGED <<frames, ei, modules, readLog, putLog>>
         ELSE IF check = "return"
           THEN /\ frames' = stepCaller(frames, ei).frames
                /\ ei' = stepCaller(frames, ei).ei
                /\ stack' = stk
                /\ UNCHANGED <<pc, err, modules, readLog, putLog>>
         ELSE IF ~canRead(modulePath)
           THEN /\ stack' = Append(stk, modulePath)
                /\ err' = Err("IoError", modulePath, NoPath)
                /\ pc' = "thrown"
                /\ UNCHANGED <<frames, ei, modules, readLog, putLog>>
         ELSE LET r == parseAndTransform(Existing, baseDir,
                                         readFileSync(modulePath), modulePath)
              IN  /\ stack' = Append(stk, modulePath)
                  /\ readLog' = Append(readLog, modulePath)
                  /\ IF r.ok
                       THEN /\ modules' = putModule(modules, moduleName, r.newContent)
                            /\ putLog' = Append(putLog, moduleName)
                            /\ frames' = Append(frames,
                                 [name |-> moduleName, path |-> modulePath,
                                  subs |-> r.subModules, i |-> 1])
                            /\ UNCHANGED <<pc, err, ei>>
                       ELSE /\ err' = r.err
                            /\ pc' = "thrown"
                            /\ UNCHANGED <<frames, ei, modules, putLog>>
  /\ UNCHANGED <<fnVars, luaVars, grVars>>
  /\ UNCHANGED <<baseDir, entryFile, fs, visited, transformedEntry,
                 entryImports, output, outFile, exitCode>>

loadModuleReturnNoPop ==
  /\ pc = "loading"
  /\ frames # <<>>
  /\ callerPos > Len(callerSubs)
  /\ LET top  == frames[Len(frames)]
         rest == SubSeq(frames, 1, Len(frames) - 1)
     IN  /\ visited' = visited \cup {top.path}
         /\ frames' = stepCaller(rest, ei).frames
         /\ ei' = stepCaller(rest, ei).ei
  /\ UNCHANGED <<fnVars, luaVars, grVars>>
  /\ UNCHANGED <<baseDir, entryFile, fs, pc, stack, modules, transformedEntry,
                 entryImports, err, output, outFile, exitCode, readLog, putLog>>

loadModuleReturnNoVisit ==
  /\ pc = "loading"
  /\ frames # <<>>
  /\ callerPos > Len(callerSubs)
  /\ LET rest == SubSeq(frames, 1, Len(frames) - 1)
     IN  /\ stack' = SubSeq(stack, 1, Len(stack) - 1)
         /\ frames' = stepCaller(rest, ei).frames
         /\ ei' = stepCaller(rest, ei).ei
  /\ UNCHANGED <<fnVars, luaVars, grVars>>
  /\ UNCHANGED <<baseDir, entryFile, fs, pc, visited, modules,
                 transformedEntry, entryImports, err, output, outFile,
                 exitCode, readLog, putLog>>

\* loadModule, lines 146-152: its loop is over, it pops the stack, adds
\* itself to the visited set and returns to the loop that called it
loadModuleReturn ==
  /\ pc = "loading"
  /\ frames # <<>>
  /\ callerPos > Len(callerSubs)
  /\ LET top  == frames[Len(frames)]
         rest == SubSeq(frames, 1, Len(frames) - 1)
     IN  /\ stack' = SubSeq(stack, 1, Len(stack) - 1)
         /\ visited' = visited \cup {top.path}
         /\ frames' = stepCaller(rest, ei).frames
         /\ ei' = stepCaller(rest, ei).ei
  /\ UNCHANGED <<fnVars, luaVars, grVars>>
  /\ UNCHANGED <<baseDir, entryFile, fs, pc, modules, transformedEntry,
                 entryImports, err, output, outFile, exitCode, readLog, putLog>>

Section(sec, name, body) == [sec |-> sec, name |-> name, body |-> body]

\* lines 187-194: one thunk for every property of modules, in property order
thunks(mods) ==
  [i \in 1..Len(mods) |-> Section("thunk", mods[i].name, mods[i].src)]

artifactEntryFirst(mods, entryText) ==
  <<Section("header", NoPath, <<>>), Section("entry", NoPath, entryText)>>
    \o thunks(mods)
    \o <<Section("import", NoPath, <<>>),
         Section("game_require", NoPath, <<>>)>>

\* lines 171-232: the artifact
artifact(mods, entryText) ==
  <<Section("header", NoPath, <<>>)>> \o thunks(mods)
    \o <<Section("import", NoPath, <<>>),
         Section("game_require", NoPath, <<>>),
         Section("entry", NoPath, entryText)>>

\* bundleLua, lines 167-232: the loop over entryImports is over, the
\* artifact is put together and returned
Emit ==
  /\ pc = "loading"
  /\ frames = <<>>
  /\ ei > Len(entryImports)
  /\ output' = artifact(modules, transformedEntry)
  /\ pc' = "returned"
  /\ UNCHANGED <<fnVars, luaVars, grVars>>
  /\ UNCHANGED <<baseDir, entryFile, fs, frames, stack, visited, modules,
                 transformedEntry, entryImports, ei, err, outFile, exitCode,
                 readLog, putLog>>

\* lines 260-262: the artifact is written, the process ends with status 0
WriteFile ==
  /\ pc = "returned"
  /\ outFile' = Append(outFile, output)
  /\ exitCode' = <<0>>
  /\ pc' = "done"
  /\ UNCHANGED <<fnVars, luaVars, grVars>>
  /\ UNCHANGED <<baseDir, entryFile, fs, frames, stack, visited, modules,
                 transformedEntry, entryImports, ei, err, output, readLog,
                 putLog>>

CatchAndWrite ==
  /\ pc = "thrown"
  /\ exitCode' = <<1>>
  /\ outFile' = Append(outFile, output)
  /\ pc' = "exited"
  /\ UNCHANGED <<fnVars, luaVars, grVars>>
  /\ UNCHANGED <<baseDir, entryFile, fs, frames, stack, visited, modules,
                 transformedEntry, entryImports, ei, err, output, readLog,
                 putLog>>

\* lines 263-266: the error is reported, the process exits with status 1
Catch ==
  /\ pc = "thrown"
  /\ exitCode' = <<1>>
  /\ pc' = "exited"
  /\ UNCHANGED <<fnVars, luaVars, grVars>>
  /\ UNCHANGED <<baseDir, entryFile, fs, frames, stack, visited, modules,
                 transformedEntry, entryImports, ei, err, output, outFile,
                 readLog, putLog>>

vars == <<buildVars, fnVars, luaVars, grVars>>

Init == BuildInit /\ FnOff /\ LuaOff /\ GrOff

Next == Start \/ loadModule \/ loadModuleReturn \/ Emit \/ WriteFile \/ Catch

Spec == Init /\ [][Next]_vars

(***************************************************************************)
(* The import graph of the source tree, read off the texts: one edge for   *)
(* every require call whose argument parseAndTransform takes for a quoted  *)
(* literal (no white space after it) and that names a file that exists.    *)
(***************************************************************************)
entryAbs == pathResolve(<<>>, pathJoin(baseDir, entryFile))

canonical(f) == pathRelative(baseDir, f)

isLiteralSite(item) == item.t = "require" /\ quotedMatch(skipSpace(item.arg))

siteTarget(f, item) ==
  resolveModulePath(Existing, baseDir, f, requiredPathOf(skipSpace(item.arg)))

RECURSIVE importsFrom(_, _)
importsFrom(f, text) ==
  IF text = <<>> THEN <<>>
  ELSE IF isLiteralSite(Head(text)) /\ siteTarget(f, Head(text)).ok
    THEN <<pathResolve(baseDir, siteTarget(f, Head(text)).val)>>
           \o importsFrom(f, Tail(text))
    ELSE importsFrom(f, Tail(text))

\* the files f imports, in textual order
imports(f) == IF f \in Readable THEN importsFrom(f, fs[f]) ELSE <<>>

RECURSIVE closure(_)
closure(S) ==
  LET N == S \cup UNION {Range(imports(f)) : f \in S}
  IN  IF N = S THEN S ELSE closure(N)

\* the files the entry reaches over imports, the entry included
reachable == IF entryAbs \in Readable THEN closure({entryAbs}) ELSE {}

\* the files reached from the entry over one import or more
bundled == IF entryAbs \in Readable THEN closure(Range(imports(entryAbs))) ELSE {}

hasCycle == \E f \in reachable : f \in closure(Range(imports(f)))

\* every literal import of a reachable file names a file that can be read
cleanTree ==
  /\ entryAbs \in Readable
  /\ reachable \subseteq Readable
  /\ \A f \in reachable : \A i \in 1..Len(fs[f]) :
       isLiteralSite(fs[f][i]) => siteTarget(f, fs[f][i]).ok

\* depth-first pre-order of first discovery
RECURSIVE preorder(_, _)
preorder(todo, acc) ==
  IF todo = <<>> THEN acc
  ELSE IF Head(todo) \in Range(acc) THEN preorder(Tail(todo), acc)
  ELSE preorder(imports(Head(todo)) \o Tail(todo), Append(acc, Head(todo)))

count(seq, x) == Cardinality({i \in 1..Len(seq) : seq[i] = x})

finished == pc \in {"done", "exited"}

succeeded == pc \in {"returned", "done"}

(***************************************************************************)
(* The claims about the build.                                             *)
(***************************************************************************)
ErrorKinds == {"CircularImport", "ModuleNotFound", "IoError"}

thunkNames(out) ==
  LET idx == {i \in 1..Len(out) : out[i].sec = "thunk"}
  IN  [k \in 1..Cardinality(idx) |->
         out[CHOOSE i \in idx : Cardinality({j \in idx : j <= i}) = k].name]

C2_DiamondOnce ==
  \/ /\ \A f \in Readable :
          /\ count(readLog, f) <= 1
          /\ count(putLog, canonical(f)) <= 1
     /\ succeeded =>
          \A f \in bundled :
            /\ count(readLog, f) = 1
            /\ count(putLog, canonical(f)) = 1
            /\ count(moduleKeys(modules), canonical(f)) = 1
            /\ Cardinality({i \in 1..Len(output) :
                  /\ output[i].sec = "thunk"
                  /\ output[i].name = canonical(f)}) = 1
            /\ \E i \in 1..Len(output) :
                 output[i] =
                   Section("thunk", canonical(f),
                           parseAndTransform(Existing, baseDir, fs[f], f).newContent)
  \/ hasCycle

\* a successful build of a tree in which two different files import the
\* same module
C2_Witness ==
  /\ pc = "done"
  /\ ~hasCycle
  /\ \E f \in bundled : \E g, h \in reachable :
       g # h /\ f \in Range(imports(g)) /\ f \in Range(imports(h))

\* C3: after a successful build the keys of the module table, and the
\* thunks of the artifact, are in depth-first pre-order of first discovery
\* from the entry, dependencies taken in textual order; and during the
\* traversal every module whose dependencies are being loaded already has
\* its key.
C3_PreOrder ==
  LET expected == preorder(imports(entryAbs), <<>>)
  IN  /\ succeeded =>
           /\ moduleKeys(modules) =
                [i \in 1..Len(expected) |-> canonical(expected[i])]
           /\ thunkNames(output) = moduleKeys(modules)
      /\ \A i \in 1..Len(frames) : frames[i].name \in Range(moduleKeys(modules))

\* a successful build in which the first module of the table imports the
\* second one
C3_Witness ==
  /\ pc = "done"
  /\ Len(modules) = 2
  /\ pathResolve(baseDir, modules[2].name)
       \in Range(imports(pathResolve(baseDir, modules[1].name)))

\* C8: the output file is written only by a run whose traversal and
\* emission ended without error, once, with the artifact; a run that
\* raised an error, at any depth, writes nothing and exits with a non-zero
\* status.
C8_WriteOnlyOnSuccess ==
  /\ outFile # <<>> =>
       /\ pc = "done"
       /\ err = NoErr
       /\ frames = <<>>
       /\ ei > Len(entryImports)
       /\ outFile = <<output>>
       /\ exitCode = <<0>>
  /\ err # NoErr =>
       /\ err.kind \in ErrorKinds
       /\ pc \in {"thrown", "exited"}
       /\ outFile = <<>>
       /\ pc = "exited" => Len(exitCode) = 1 /\ exitCode[1] # 0
  /\ pc = "exited" => err # NoErr

\* a run has exited on a module-not-found error raised inside a loadModule
\* call, after the module table got its first entries
C8_Witness ==
  /\ pc = "exited"
  /\ err.kind = "ModuleNotFound"
  /\ frames # <<>>
  /\ modules # <<>>
  /\ outFile = <<>>

\* the stack from the first occurrence of the module the circular-import
\* error is about: the modules of the cycle, in traversal order, the last
\* one being the module that holds the import
cycleChain ==
  LET m     == pathResolve(baseDir, err.what)
      first == CHOOSE i \in 1..Len(stack) :
                 stack[i] = m /\ \A j \in 1..(i - 1) : stack[j] # m
  IN  SubSeq(stack, first, Len(stack))

\* the modules the message of the circular-import error names, in the
\* order it names them: moduleName, then previousPath
namedInError ==
  LET m == pathResolve(baseDir, err.what)
  IN  IF err.at = m THEN <<m>> ELSE <<m, err.at>>

\* C11: the circular-import error names every module of the cycle, from
\* the first occurrence on the stack of the module reached again through
\* the module that holds the import, in traversal order.
C11_ReportsFullChain ==
  err.kind = "CircularImport" => namedInError = cycleChain

\* the module whose text was being transformed when the error was thrown:
\* the innermost module opened, or the entry when none is open
referencingModule == IF stack = <<>> THEN entryAbs ELSE stack[Len(stack)]

\* the files resolveModulePath asks fs.existsSync about for a literal of
\* file f when none of them exists
probedCandidates(f, requiredPath) ==
  LET absolute == pathResolve(pathDirname(f), requiredPath)
  IN  IF pathExtname(absolute) = ""
        THEN {withExt(absolute, ".lua"), withExt(absolute, ".luau")}
        ELSE {absolute}

\* the paths the message of the module-not-found error holds
pathsInNotFound == {err.what, err.at}

\* the literal imports of file f that name no file
missingLiterals(f) ==
  { requiredPathOf(skipSpace(fs[f][i].arg)) :
      i \in {j \in 1..Len(fs[f]) :
               isLiteralSite(fs[f][j]) /\ ~siteTarget(f, fs[f][j]).ok} }

\* C12: a module-not-found error reports a literal of the module that
\* holds the import, the files that were probed for it, and the actual
\* path of that module, whether that module is the entry or a nested one.
C12_NotFoundReport ==
  err.kind = "ModuleNotFound" =>
    /\ err.what \in missingLiterals(referencingModule)
    /\ err.at = referencingModule
    /\ probedCandidates(referencingModule, err.what) \subseteq pathsInNotFound

\* C16: after a successful build the module table has no key for the
\* entry module, and the artifact has one entry section, holding the
\* entry's transformed text, as its last section: every thunk, the import
\* function and the game_require function come before it.
C16_EntryLastNotInTable ==
  succeeded =>
    /\ canonical(entryAbs) \notin Range(moduleKeys(modules))
    /\ \A i \in 1..Len(output) :
         output[i].sec = "thunk" => output[i].name # canonical(entryAbs)
    /\ Cardinality({i \in 1..Len(output) : output[i].sec = "entry"}) = 1
    /\ output[Len(output)] =
         Section("entry", NoPath,
                 parseAndTransform(Existing, baseDir, fs[entryAbs],
                                   entryAbs).newContent)
    /\ Cardinality({i \in 1..Len(output) : output[i].sec = "thunk"})
         = Len(modules)
    /\ \E i, j \in 1..(Len(output) - 1) :
         /\ output[i].sec = "import"
         /\ output[j].sec = "game_require"
         /\ \A k \in 1..Len(output) : output[k].sec = "thunk" => k < i /\ k < j
    /\ pc = "done" => outFile = <<output>>

\* a successful build whose artifact has two thunks and an entry text with
\* an import, written to the output file
C16_Witness ==
  /\ pc = "done"
  /\ Len(modules) = 2
  /\ \E i \in 1..Len(transformedEntry) : transformedEntry[i].t = "import"
  /\ outFile # <<>>

\* the modules of the loadModule calls in progress, outermost first
openModules == [i \in 1..Len(frames) |-> frames[i].path]

\* C17: the stack is the chain of modules being loaded, from an import of
\* the entry to the module being opened, each one imported by the one
\* before it (after an error it may end with the module whose opening
\* failed); it has no duplicates and shares nothing with the visited set;
\* every visited module, and every module on the stack but the one being
\* opened, has a key in the module table; every import of a visited module
\* is visited; and after a successful build the stack is empty.
C17_StackDiscipline ==
  /\ pc = "loading" => stack = openModules
  /\ \/ stack = openModules
     \/ /\ pc \in {"thrown", "exited"}
        /\ Len(stack) = Len(openModules) + 1
        /\ SubSeq(stack, 1, Len(openModules)) = openModules
  /\ \A i, j \in 1..Len(stack) : stack[i] = stack[j] => i = j
  /\ Range(stack) \cap visited = {}
  /\ stack # <<>> => stack[1] \in Range(imports(entryAbs))
  /\ \A i \in 1..(Len(stack) - 1) : stack[i + 1] \in Range(imports(stack[i]))
  /\ \A f \in visited : canonical(f) \in Range(moduleKeys(modules))
  /\ \A i \in 1..Len(openModules) :
       canonical(openModules[i]) \in Range(moduleKeys(modules))
  /\ \A f \in visited : Range(imports(f)) \subseteq visited
  /\ succeeded => stack = <<>> /\ frames = <<>>

\* the traversal is two modules deep, after another module was finished
C17_Witness ==
  /\ pc = "loading"
  /\ Len(stack) = 2
  /\ visited # {}

\* the files loadModule has read, in order (the first file read is the
\* entry, read by bundleLua itself)
opened == IF readLog = <<>> THEN <<>> ELSE Tail(readLog)

\* the number of require calls in the tree
sitesInTree ==
  LET RECURSIVE sum(_)
      sum(S) == IF S = {} THEN 0
                ELSE LET f == CHOOSE x \in S : TRUE
                     IN  Len(fs[f]) + sum(S \ {f})
  IN  sum(DOMAIN fs)

\* what is left to do: a number that every step of a run makes smaller.
\* The elements the loops in progress have not passed and the calls in
\* progress count one each, a file not opened yet counts more than any
\* loop, and a stage of the run more than all files together.
variant ==
  LET perFile  == sitesInTree + 2
      perStage == perFile * (Cardinality(Existing) + 2)
      stage    == CASE pc = "start"   -> 4
                    [] pc = "loading" -> 3
                    [] pc \in {"thrown", "returned"} -> 1
                    [] OTHER -> 0
      unopened == Cardinality(Existing \ (visited \cup Range(stack)))
      loops    == (Len(entryImports) + 1) - ei
      inFrames == LET RECURSIVE left(_)
                      left(k) == IF k = 0 THEN 0
                                 ELSE (Len(frames[k].subs) + 2) - frames[k].i
                                        + left(k - 1)
                  IN  left(Len(frames))
  IN  stage * perStage + unopened * perFile + loops + inFrames

\* the condition under which one of the steps of the run is possible: the
\* entry is to be read, a loop has an element left (loadModule is called),
\* the loop of a loadModule call is over (it returns), the loop over
\* entryImports is over (the artifact is put together), the artifact is to
\* be written, or an error is to be caught
canStep ==
  \/ pc = "start"
  \/ pc = "loading" /\ callerPos <= Len(callerSubs)
  \/ pc = "loading" /\ frames # <<>> /\ callerPos > Len(callerSubs)
  \/ pc = "loading" /\ frames = <<>> /\ ei > Len(entryImports)
  \/ pc = "returned"
  \/ pc = "thrown"

\* C19: a run that has not ended can take a step, every step makes the
\* variant, a natural number, smaller, and a run that has ended takes no
\* step more: it has written the artifact, or it has one error and has
\* written nothing. Every loadModule call raises, or returns at once on a
\* visited module, or opens a module that was not opened before; and no
\* module is opened twice.
C19_Terminates ==
  /\ [](variant \in Nat)
  /\ [][variant' < variant]_vars
  /\ [](finished \/ canStep)
  /\ [](finished =>
          /\ ~ENABLED Next
          /\ \/ pc = "done" /\ err = NoErr /\ outFile = <<output>>
             \/ pc = "exited" /\ err.kind \in ErrorKinds /\ outFile = <<>>)
  /\ [](\A f \in Existing : count(opened, f) <= 1)
  /\ [][(pc = "loading" /\ callerPos <= Len(callerSubs)) =>
          LET modulePath == pathResolve(baseDir, callerSubs[callerPos])
          IN  \/ pc' = "thrown"
              \/ /\ modulePath \in visited
                 /\ Len(frames') = Len(frames)
                 /\ readLog' = readLog
                 /\ modules' = modules
              \/ /\ modulePath \notin Range(opened)
                 /\ modulePath \notin visited
                 /\ readLog' = Append(readLog, modulePath)
                 /\ Len(frames') = Len(frames) + 1]_vars

\* a run has ended with the artifact after a loadModule call returned at
\* once on a module that another module had imported before
C19_Witness ==
  /\ pc = "done"
  /\ Len(opened) = 2
  /\ \E f \in Range(opened) :
       f \in Range(imports(entryAbs)) /\ \E g \in Range(opened) : f \in Range(imports(g))

(***************************************************************************)
(* resolveModulePath and parseAndTransform on their own: the arguments are *)
(* chosen, the function is applied.                                        *)
(***************************************************************************)
\* the number of items (require calls, other text) of the text transformed
MaxItems == 2

XFiles ==
  { P(SrcDir, "x", ".lua"), P(SrcDir, "x", ".luau"),
    P(LibDir, "x", ".lua"), P(LibDir, "x", ".luau"),
    P(<<"/", "w">>, "x", ".lua") }

\* currentFilePath: a module path, or the entry path under a relative baseDir
FnCurrent == {MainFile, CFile, P(<<"src">>, "main", ".lua")}

\* requiredPath
FnLiterals ==
  { P(<<".">>, "x", ""), P(<<".">>, "x", ".lua"), P(<<".">>, "x", ".luau"),
    P(<<"..">>, "x", ""), P(<<"..">>, "x", ".luau"),
    P(<<".", "lib">>, "x", ""), P(<<>>, "x", "") }

PathA == Chars(P(<<".">>, "a", ""))

PathGone == Chars(P(<<".">>, "gone", ""))

\* the arguments of the require calls: name, ( name ), f(, nothing, "./a",
\* './a' after white space, "./a" before white space, "./a" name "./a",
\* "./gone", "" and "./a'
FnArgs ==
  { <<NAME>>, <<WS, NAME, WS>>, <<NAME, LP>>, <<>>,
    <<DQ, PathA, DQ>>, <<WS, SQ, PathA, SQ>>, <<DQ, PathA, DQ, WS>>,
    <<DQ, PathA, DQ, NAME, DQ, PathA, DQ>>,
    <<DQ, PathGone, DQ>>, <<DQ, DQ>>, <<DQ, PathA, SQ>> }

FnItems == {Item("text", <<NAME>>)} \cup {Item("require", a) : a \in FnArgs}

FnTexts == UNION {[1..n -> FnItems] : n \in 0..MaxItems}

FnInit ==
  /\ fnPc = "ready"
  /\ fnOut = <<>>
  /\ \/ \E files \in SUBSET XFiles, b \in BaseDirs, c \in FnCurrent,
          l \in FnLiterals :
          fnIn = [fn |-> "resolve", files |-> files, baseDir |-> b,
                  currentFilePath |-> c, requiredPath |-> l, luaContent |-> <<>>]
     \/ \E files \in {Existing, {}}, b \in BaseDirs, t \in FnTexts :
          fnIn = [fn |-> "transform", files |-> files, baseDir |-> b,
                  currentFilePath |-> MainFile, requiredPath |-> NoPath,
                  luaContent |-> t]

ApplyResolve ==
  /\ fnPc = "ready"
  /\ fnIn.fn = "resolve"
  /\ fnOut' = resolveModulePath(fnIn.files, fnIn.baseDir, fnIn.currentFilePath,
                                fnIn.requiredPath)
  /\ fnPc' = "done"
  /\ UNCHANGED <<fnIn, buildVars, luaVars, grVars>>

ApplyTransform ==
  /\ fnPc = "ready"
  /\ fnIn.fn = "transform"
  /\ fnOut' = parseAndTransform(fnIn.files, fnIn.baseDir, fnIn.luaContent,
                                fnIn.currentFilePath)
  /\ fnPc' = "done"
  /\ UNCHANGED <<fnIn, buildVars, luaVars, grVars>>

InitFn == FnInit /\ BuildOff /\ LuaOff /\ GrOff

NextFn == ApplyResolve \/ ApplyTransform

SpecFn == InitFn /\ [][NextFn]_vars

\* C9: a literal without extension resolves to the .lua file when it
\* exists, otherwise to the .luau file when it exists, otherwise the call
\* fails with module-not-found; a literal with an extension resolves to
\* exactly that file when it exists and fails otherwise, whatever other
\* extensions exist. The result is relative to the base directory: it is no
\* absolute path, and taken from the base directory it names the file.
C9_ExtensionProbing ==
  (fnPc = "done" /\ fnIn.fn = "resolve") =>
    LET lit    == fnIn.requiredPath
        target == pathResolve(pathDirname(fnIn.currentFilePath), lit)
        lua    == P(target.segs, target.stem, ".lua")
        luau   == P(target.segs, target.stem, ".luau")
        gives(f) == /\ fnOut.ok
                    /\ ~isAbsolute(fnOut.val.segs)
                    /\ \A i \in 1..Len(fnOut.val.segs) : fnOut.val.segs[i] # "."
                    /\ pathResolve(fnIn.baseDir, fnOut.val) = f
        fails  == ~fnOut.ok /\ fnOut.err.kind = "ModuleNotFound"
    IN  IF lit.ext = ""
          THEN IF lua \in fnIn.files THEN gives(lua)
               ELSE IF luau \in fnIn.files THEN gives(luau)
               ELSE fails
          ELSE IF target \in fnIn.files THEN gives(target) ELSE fails

\* resolveModulePath, called from a module of a subdirectory on "../x"
\* where x.lua and x.luau both exist, has returned
C9_Witness ==
  /\ fnPc = "done"
  /\ fnIn.fn = "resolve"
  /\ fnIn.currentFilePath = CFile
  /\ fnIn.requiredPath = P(<<"..">>, "x", "")
  /\ {P(SrcDir, "x", ".lua"), P(SrcDir, "x", ".luau")} \subseteq fnIn.files
  /\ fnOut.ok

\* the argument of a require call without the white space around it
RECURSIVE trimRight(_)
trimRight(a) ==
  IF a # <<>> /\ a[Len(a)] = WS THEN trimRight(SubSeq(a, 1, Len(a) - 1)) ELSE a

RECURSIVE trimLeft(_)
trimLeft(a) == IF a # <<>> /\ a[1] = WS THEN trimLeft(Tail(a)) ELSE a

expression(a) == trimRight(trimLeft(a))

\* the argument is a quoted string: a quote, characters other than quotes,
\* a quote
isStringLiteral(a) ==
  LET e == expression(a)
  IN  /\ Len(e) >= 2
      /\ e[1] \in Quotes
      /\ e[Len(e)] \in Quotes
      /\ \A i \in 2..(Len(e) - 1) : e[i] \notin Quotes

dynamicSites(text) ==
  {i \in 1..Len(text) : text[i].t = "require" /\ ~isStringLiteral(text[i].arg)}

literalSites(text) ==
  {i \in 1..Len(text) : text[i].t = "require" /\ isStringLiteral(text[i].arg)}

\* C10: a require call whose argument is not a string literal is rewritten
\* to an import call with the same argument expression, adds nothing to
\* the dependency list, and is not looked up in the file system: a text
\* whose calls are all of this kind is transformed without error whatever
\* files exist, and an error names the path of a string literal.
C10_DynamicPassthrough ==
  (fnPc = "done" /\ fnIn.fn = "transform") =>
    LET text == fnIn.luaContent
    IN  /\ fnOut.ok =>
             /\ Len(fnOut.newContent) = Len(text)
             /\ \A i \in dynamicSites(text) :
                  /\ fnOut.newContent[i].t = "import"
                  /\ expression(fnOut.newContent[i].arg) = expression(text[i].arg)
             /\ Len(fnOut.subModules) <= Cardinality(literalSites(text))
        /\ ~fnOut.ok =>
             \E i \in literalSites(text) :
               \E j \in 1..Len(text[i].arg) : text[i].arg[j].p = fnOut.err.what
        /\ literalSites(text) = {} => fnOut.ok /\ fnOut.subModules = <<>>

\* a text with a literal import and with a call whose argument is an
\* expression made of two strings has been transformed
C10_Witness ==
  /\ fnPc = "done"
  /\ fnIn.fn = "transform"
  /\ fnOut.ok
  /\ fnIn.files = Existing
  /\ fnIn.luaContent =
       <<Item("require", <<DQ, PathA, DQ, NAME, DQ, PathA, DQ>>),
         Item("require", <<DQ, PathA, DQ>>)>>
  /\ Len(fnOut.subModules) = 1

\* the argument is one quoted string literal, with or without white space
\* around it: a quote, one or more characters other than quotes, the same
\* quote
isQuotedLiteral(a) ==
  LET e == expression(a)
  IN  /\ Len(e) >= 3
      /\ e[1] \in Quotes
      /\ e[Len(e)] = e[1]
      /\ \A i \in 2..(Len(e) - 1) : e[i] \notin Quotes

quotedSites(text) ==
  {i \in 1..Len(text) : text[i].t = "require" /\ isQuotedLiteral(text[i].arg)}

\* the k-th smallest element of a set of numbers
nth(S, k) == CHOOSE i \in S : Cardinality({j \in S : j <= i}) = k

\* C15: every require call whose argument is one quoted string literal,
\* with or without white space around the literal, is resolved: when every
\* literal of a text names a file, the dependency list holds the canonical
\* paths of the literals in textual order, duplicates kept, and every such
\* call has become import("<canonical path>"); when one names no file the
\* call fails with module-not-found. (Texts in which every quoted argument
\* is a well-formed literal.)
C15_LiteralSitesResolved ==
  (/\ fnPc = "done"
   /\ fnIn.fn = "transform"
   /\ literalSites(fnIn.luaContent) = quotedSites(fnIn.luaContent)) =>
    LET text   == fnIn.luaContent
        lits   == quotedSites(text)
        res(i) == resolveModulePath(fnIn.files, fnIn.baseDir,
                                    fnIn.currentFilePath,
                                    requiredPathOf(expression(text[i].arg)))
    IN  IF \A i \in lits : res(i).ok
          THEN /\ fnOut.ok
               /\ fnOut.subModules =
                    [k \in 1..Cardinality(lits) |-> res(nth(lits, k)).val]
               /\ \A i \in lits :
                    fnOut.newContent[i] =
                      Item("import", <<DQ, Chars(res(i).val), DQ>>)
          ELSE /\ ~fnOut.ok
               /\ fnOut.err.kind = "ModuleNotFound"

(***************************************************************************)
(* The import graph of the source tree as the language has it: one edge    *)
(* for every require call whose argument is one quoted string literal,     *)
(* with or without white space around it, naming a file that exists.       *)
(***************************************************************************)
staticTarget(f, item) ==
  resolveModulePath(Existing, baseDir, f, requiredPathOf(expression(item.arg)))

staticImports(f) ==
  IF f \in Readable
    THEN { pathResolve(baseDir, staticTarget(f, fs[f][i]).val) :
             i \in {j \in quotedSites(fs[f]) : staticTarget(f, fs[f][j]).ok} }
    ELSE {}

RECURSIVE staticClosure(_)
staticClosure(S) ==
  LET N == S \cup UNION {staticImports(f) : f \in S}
  IN  IF N = S THEN S ELSE staticClosure(N)

\* the keys the import calls of a text name with a quoted string literal
literalKeys(text) ==
  { requiredPathOf(expression(text[i].arg)) :
      i \in {j \in 1..Len(text) :
               text[j].t = "import" /\ isQuotedLiteral(text[j].arg)} }

\* C18: after a successful build every key that an import call of the
\* entry text or of a thunk names with a string literal is a key of the
\* module table, and the keys of the table are exactly the modules the
\* entry reaches over string-literal imports.
C18_ClosedUnderStaticImports ==
  succeeded =>
    /\ literalKeys(transformedEntry) \subseteq Range(moduleKeys(modules))
    /\ \A i \in 1..Len(modules) :
         literalKeys(modules[i].src) \subseteq Range(moduleKeys(modules))
    /\ Range(moduleKeys(modules)) =
         {canonical(f) : f \in staticClosure(staticImports(entryAbs))}

(***************************************************************************)
(* The import function of the artifact (lines 196-211), run by a Lua host. *)
(* The entry code calls import under pcall, so that it goes on after an    *)
(* error; a module body may itself call import on a key it computes.       *)
(***************************************************************************)
\* the number of import calls the entry code makes
MaxRequests == 3

\* the depth of Lua calls at which the host raises a stack overflow
MaxDepth == 4

\* the keys lines 187-194 define, and a key they do not define
DefinedKeys == {"k1", "k2"}

AllKeys == DefinedKeys \cup {"zz"}

\* Lua values: tag is the kind of value, id and n tell values of a kind
\* apart (the module that made it, the evaluation that made it)
V(tag, id, n) == [tag |-> tag, id |-> id, n |-> n]

Nil == V("nil", "", 0)

\* the function lines 189-191 bind to a key
Thunk(k) == V("thunk", k, 0)

\* what a module body may do: import the keys of pre, one after the other,
\* then return a table, a function, nil or false, or raise an error
Behaviours ==
  {[pre |-> p, ret |-> r] :
     p \in {<<>>} \cup {<<k>> : k \in DefinedKeys},
     r \in {"table", "function", "nil", "false", "error"}}

Frame(op, key, j) == [op |-> op, key |-> key, j |-> j]

LuaInit ==
  /\ luaPc = "run"
  /\ BUNDLE = [k \in AllKeys |-> IF k \in DefinedKeys THEN Thunk(k) ELSE Nil]
  /\ bodies \in [DefinedKeys -> Behaviours]
  /\ calls = <<>>
  /\ evals = [k \in DefinedKeys |-> 0]
  /\ results = <<>>

Outcome(key, kind, val, errKey) ==
  [key |-> key, kind |-> kind, val |-> val, errKey |-> errKey]

\* Lua: nil and false are false in a condition
truthy(v) == v.tag \notin {"nil", "false"}

\* Lua: type(v) == 'function'
isFunction(v) == v.tag \in {"thunk", "function"}

\* an error unwinds every call up to the pcall of the entry code
raised(kind, errKey) ==
  /\ calls' = <<>>
  /\ results' = Append(results, Outcome(calls[1].key, kind, Nil, errKey))

\* the import call on top of cs returns v: to the entry code, or to the
\* module body that called it
returned(cs, v) ==
  LET rest == SubSeq(cs, 1, Len(cs) - 1)
  IN  IF rest = <<>>
        THEN /\ calls' = <<>>
             /\ results' = Append(results, Outcome(cs[1].key, "value", v, ""))
        ELSE /\ calls' = [rest EXCEPT ![Len(rest)].j = @ + 1]
             /\ UNCHANGED results

\* the entry code: pcall(import, k)
CallImport ==
  /\ luaPc = "run"
  /\ calls = <<>>
  /\ Len(results) < MaxRequests
  /\ \E k \in AllKeys : calls' = <<Frame("import", k, 0)>>
  /\ UNCHANGED <<luaPc, BUNDLE, bodies, evals, results>>
  /\ UNCHANGED <<buildVars, fnVars, grVars>>

\* import(name), lines 198-208, up to the call of __BUNDLE[name] or to
\* its return
ImportEnter ==
  /\ luaPc = "run"
  /\ calls # <<>>
  /\ LET top  == calls[Len(calls)]
         name == top.key
         v    == BUNDLE[name]
     IN  /\ top.op = "import"
         /\ top.j = 0
         /\ IF ~truthy(v)
              THEN /\ raised("notfound", name)
                   /\ UNCHANGED <<BUNDLE, evals>>
            ELSE IF ~isFunction(v)
              THEN /\ returned(calls, v)
                   /\ UNCHANGED <<BUNDLE, evals>>
            ELSE IF v.tag = "thunk"
              THEN IF Len(calls) >= MaxDepth
                     THEN /\ raised("error", name)
                          /\ UNCHANGED <<BUNDLE, evals>>
                     ELSE /\ calls' = Append([calls EXCEPT ![Len(calls)].j = 1],
                                             Frame("body", name, 1))
                          /\ evals' = [evals EXCEPT ![name] = @ + 1]
                          /\ UNCHANGED <<BUNDLE, results>>
            ELSE \* a function the module returned: it is called, without
                 \* arguments, and what it returns is stored and returned
                 \E r \in {Nil, V("table", "call", 0)} :
                   /\ BUNDLE' = [BUNDLE EXCEPT ![name] = r]
                   /\ returned(calls, r)
                   /\ UNCHANGED evals
  /\ UNCHANGED <<luaPc, bodies>>
  /\ UNCHANGED <<buildVars, fnVars, grVars>>

\* a module body, called by line 200: its next import call, or its end;
\* at its end lines 201-202 store and return what it returned
BodyStep ==
  /\ luaPc = "run"
  /\ calls # <<>>
  /\ LET top == calls[Len(calls)]
         b   == bodies[top.key]
     IN  /\ top.op = "body"
         /\ IF top.j <= Len(b.pre)
              THEN /\ calls' = Append(calls, Frame("import", b.pre[top.j], 0))
                   /\ UNCHANGED <<BUNDLE, results>>
            ELSE IF b.ret = "error"
              THEN /\ raised("error", top.key)
                   /\ UNCHANGED BUNDLE
            ELSE LET result == IF b.ret = "nil" THEN Nil
                               ELSE V(b.ret, top.key, evals[top.key])
                 IN  /\ BUNDLE' = [BUNDLE EXCEPT ![top.key] = result]
                     /\ returned(SubSeq(calls, 1, Len(calls) - 1), result)
  /\ UNCHANGED <<luaPc, bodies, evals>>
  /\ UNCHANGED <<buildVars, fnVars, grVars>>

InitImport == LuaInit /\ BuildOff /\ FnOff /\ GrOff

NextImport == CallImport \/ ImportEnter \/ BodyStep

SpecImport == InitImport /\ [][NextImport]_vars

\* C4: when the entry code's first two import calls are on the same key,
\* whose module body returns a table, a function, nil or false, the body
\* was evaluated once and both calls returned the same value.
C4_SecondCallSameValue ==
  \A k \in DefinedKeys :
    ( /\ bodies[k].pre = <<>>
      /\ bodies[k].ret # "error"
      /\ Len(results) >= 2
      /\ results[1].key = k
      /\ results[2].key = k )
    => /\ results[1].kind = "value"
       /\ results[2].kind = "value"
       /\ results[2].val = results[1].val
       /\ evals[k] = 1

\* C5: no module body is entered more than once.
C5_BodyAtMostOnce == \A k \in DefinedKeys : evals[k] <= 1

\* C6: an import call raises the module-not-found error only for a key
\* the bundle never defined.
C6_NotFoundOnlyUndefined ==
  \A i \in 1..Len(results) :
    results[i].kind = "notfound" => results[i].errKey \notin DefinedKeys

(***************************************************************************)
(* The game_require function of the artifact (lines 213-228), run by a     *)
(* host that provides setthreadidentity and require. The entry code calls  *)
(* it under pcall.                                                         *)
(***************************************************************************)
\* the number of game_require calls the entry code makes
MaxCalls == 2

\* setthreadidentity(2)
LoweredIdentity == 2

\* setthreadidentity(7)
RestoredIdentity == 7

\* what require(module) does: it returns a table or false, returns nothing
\* (nil), or raises an error
LoaderOutcomes == {"table", "false", "nil", "raise"}

\* what callback is: no function, a function that returns, a function that
\* raises an error
CallbackKinds == {"none", "returns", "raises"}

GrInit ==
  /\ grPc = "idle"
  /\ identity = RestoredIdentity
  /\ grArgs = <<>>
  /\ imported = "nil"
  /\ cbSeen = <<>>
  /\ restored = FALSE
  /\ grLog = <<>>

\* the call is over: how it ended, and what it left behind
ended(how, seen, imp) ==
  /\ grLog' = Append(grLog,
       [args |-> grArgs, how |-> how, identity |-> identity,
        restored |-> restored, cbSeen |-> seen, imported |-> imp])
  /\ grPc' = "idle"

\* the entry code calls game_require(module, callback); line 215
GrEnter ==
  /\ grPc = "idle"
  /\ Len(grLog) < MaxCalls
  /\ \E l \in LoaderOutcomes, c \in CallbackKinds :
       grArgs' = [loader |-> l, callback |-> c]
  /\ identity' = LoweredIdentity
  /\ restored' = FALSE
  /\ cbSeen' = <<>>
  /\ imported' = "nil"
  /\ grPc' = "lowered"
  /\ UNCHANGED grLog
  /\ UNCHANGED <<buildVars, fnVars, luaVars>>

\* line 216: local imported = require(module)
GrRequire ==
  /\ grPc = "lowered"
  /\ IF grArgs.loader = "raise"
       THEN /\ UNCHANGED imported
            /\ ended("loader raised", cbSeen, imported)
       ELSE /\ imported' = grArgs.loader
            /\ grPc' = "required"
            /\ UNCHANGED grLog
  /\ UNCHANGED <<identity, grArgs, cbSeen, restored>>
  /\ UNCHANGED <<buildVars, fnVars, luaVars>>

callsCallbackAnyValue(callback, imp) == callback # "none"

\* line 217: callback is a function and imported is not nil
callsCallback(callback, imp) == callback # "none" /\ imp # "nil"

\* lines 217-219: callback(imported), when callback is a function and
\* imported is not nil
GrCallback ==
  /\ grPc = "required"
  /\ IF callsCallback(grArgs.callback, imported)
       THEN LET call == [arg |-> imported, identity |-> identity]
            IN  /\ cbSeen' = Append(cbSeen, call)
                /\ IF grArgs.callback = "raises"
                     THEN ended("callback raised", Append(cbSeen, call), imported)
                     ELSE grPc' = "called" /\ UNCHANGED grLog
       ELSE /\ grPc' = "called"
            /\ UNCHANGED <<cbSeen, grLog>>
  /\ UNCHANGED <<identity, grArgs, imported, restored>>
  /\ UNCHANGED <<buildVars, fnVars, luaVars>>

\* line 220: setthreadidentity(7)
GrRestore ==
  /\ grPc = "called"
  /\ identity' = RestoredIdentity
  /\ restored' = TRUE
  /\ grPc' = "restored"
  /\ UNCHANGED <<grArgs, imported, cbSeen, grLog>>
  /\ UNCHANGED <<buildVars, fnVars, luaVars>>

\* lines 221-225: error(...) when imported is nil, return imported otherwise
GrFinish ==
  /\ grPc = "restored"
  /\ IF imported = "nil" THEN ended("fatal", cbSeen, imported)
     ELSE ended("returned", cbSeen, imported)
  /\ UNCHANGED <<identity, grArgs, imported, cbSeen, restored>>
  /\ UNCHANGED <<buildVars, fnVars, luaVars>>

InitBridge == GrInit /\ BuildOff /\ FnOff /\ LuaOff

NextBridge == GrEnter \/ GrRequire \/ GrCallback \/ GrRestore \/ GrFinish

SpecBridge == InitBridge /\ [][NextBridge]_vars

\* C7: the environment loader runs under the lowered identity, and every
\* game_require call that is over, however it ended, has run the restoring
\* step and left the restored identity.
C7_RestoredOnEveryPath ==
  /\ grPc = "required" => identity = LoweredIdentity
  /\ \A i \in 1..Len(grLog) :
       /\ grLog[i].restored
       /\ grLog[i].identity = RestoredIdentity

\* C13, as stated: a call whose loader gave no value ends with the fatal
\* error and never calls the callback; a call whose loader gave a value
\* calls the callback it was given once, with that value, and returns that
\* value.
C13_FatalOrContinuation ==
  \A i \in 1..Len(grLog) :
    LET e == grLog[i]
    IN  /\ e.args.loader = "nil" => e.how = "fatal" /\ e.cbSeen = <<>>
        /\ e.args.loader \in {"table", "false"} =>
             /\ e.args.callback # "none" =>
                  /\ Len(e.cbSeen) = 1
                  /\ e.cbSeen[1].arg = e.args.loader
             /\ e.how = "returned"
             /\ e.imported = e.args.loader

\* C13, amended: a call whose loader gave no value ends with the fatal
\* error and never calls the callback; a call whose loader gave a value
\* calls the callback it was given once, with that value, and never calls
\* anything when it was given none; it returns that value unless the
\* callback raised an error, and then it ends with that error.
C13_FatalOrContinuationUnlessRaised ==
  \A i \in 1..Len(grLog) :
    LET e == grLog[i]
    IN  /\ e.args.loader = "nil" => e.how = "fatal" /\ e.cbSeen = <<>>
        /\ e.args.loader \in {"table", "false"} =>
             /\ e.args.callback # "none" =>
                  /\ Len(e.cbSeen) = 1
                  /\ e.cbSeen[1].arg = e.args.loader
             /\ e.args.callback = "none" => e.cbSeen = <<>>
             /\ IF e.args.callback = "raises"
                  THEN e.how = "callback raised"
                  ELSE e.how = "returned" /\ e.imported = e.args.loader

\* one call with a callback ended with the fatal error, and one call
\* returned false after its callback got false
C13_Witness ==
  /\ \E i \in 1..Len(grLog) :
       /\ grLog[i].args = [loader |-> "nil", callback |-> "returns"]
       /\ grLog[i].how = "fatal"
  /\ \E i \in 1..Len(grLog) :
       /\ grLog[i].args = [loader |-> "false", callback |-> "returns"]
       /\ grLog[i].how = "returned"
       /\ Len(grLog[i].cbSeen) = 1

\* C14: every call of the callback, in a game_require call that is over
\* or in the one in progress, ran under the restored identity, after the
\* restoring step of its game_require call.
C14_ContinuationAfterRestore ==
  /\ \A j \in 1..Len(cbSeen) : cbSeen[j].identity = RestoredIdentity
  /\ \A i \in 1..Len(grLog) : \A j \in 1..Len(grLog[i].cbSeen) :
       grLog[i].cbSeen[j].identity = RestoredIdentity

====
